---- MODULE Spec2Model ----
(***************************************************************************)
(* Points-and-state-transition core of ChoreChomper: the chore routes      *)
(* (backend/src/routes/chore.routes.ts, second router of the file), the    *)
(* redemption routes (backend/src/routes/upload.routes.ts, second router), *)
(* the reward routes (backend/src/routes/family.routes.ts, second router)  *)
(* and the kudos route (backend/src/routes/kudos.routes.ts).               *)
(*                                                                         *)
(* Every request is handled by a worker r \in Procs.  Each `await prisma`  *)
(* call of a handler is one atomic step; between two awaits of one handler *)
(* the steps of other requests may run.  A $transaction is one step.       *)
(* Dates are abstracted to set (TRUE) / null (FALSE).                      *)
(***************************************************************************)
EXTENDS Integers, FiniteSets, Sequences, TLC

\* ------------------------------------------------------------------ bounds
MaxChores == 1
MaxRewards == 1
MaxRedemptions == 2
MaxPoints == 1
MaxBalance == 2
MaxQuantity == 1
MaxCount == 2
NumProcs == 2

\* --------------------------------------------------------------- constants
Null == "null"
Undefined == "undefined"
\* Both stand apart from every value a column can take: an oversold stock
\* counts down through -1, -2, ...
NullInt == -100   \* a NULL in a nullable integer column
NoInt == -200     \* an integer field left out of a request body

Parents == {"p1"}
Children == {"c1", "c2"}
Users == Parents \cup Children
\* A parent and a child of a second family.
Outsiders == {"p2", "c3"}
Everyone == Users \cup Outsiders
Procs == 1..NumProcs
ChoreIds == 1..MaxChores
RewardIds == 1..MaxRewards
RedemptionIds == 1..MaxRedemptions

UserRole(u) == IF u \in Parents \cup {"p2"} THEN "PARENT" ELSE "CHILD"
FamilyOf(u) == IF u \in Outsiders THEN "famB" ELSE "famA"

ChoreStatus == {"PENDING", "COMPLETED", "VERIFIED", "REJECTED"}

VARIABLES
  chores,          \* table chores: ChoreIds -> row
  pointsBalance,   \* users.points_balance
  points,          \* the User field `points` the redemption routes name
  schemaHasPoints, \* whether the generated Prisma client knows User.points
  rewards,         \* table rewards
  redemptions,     \* table redemptions
  pc,              \* per worker: the await the handler is suspended at
  rq,              \* per worker: the request and the handler's locals
  created,         \* rows ever inserted per table (ids are never reused)
  last,            \* the response sent most recently: request and code
  credits,         \* history: verify's pointsBalance increments per chore (up to MaxCount)
  rhist            \* history: what each redemption's request and reviews moved

vars == <<chores, pointsBalance, points, schemaHasPoints, rewards, redemptions,
          created, pc, rq, last, credits, rhist>>

choreVars == <<chores>>
ledgerVars == <<pointsBalance, points>>
rewardVars == <<rewards, redemptions>>
histVars == <<credits, rhist>>

\* ------------------------------------------------------------------- rows
NoChore == [exists |-> FALSE, familyId |-> Null, assignedToId |-> Null,
            pointValue |-> 0, status |-> "PENDING", completedAt |-> FALSE,
            photoUrl |-> FALSE, completionNotes |-> FALSE, verifiedAt |-> FALSE,
            verifiedById |-> Null, verificationNotes |-> FALSE, claimedAt |-> FALSE,
            completedById |-> Null]   \* history: whose complete made the chore COMPLETED

NoRequest == [op |-> "none", actor |-> Null, id |-> 0, approved |-> FALSE,
              feedback |-> FALSE, amount |-> 0, assignedToId |-> Null,
              pointValue |-> 0, photoUrl |-> FALSE, notes |-> FALSE,
              rewardId |-> 0, childId |-> Null, quantityAvailable |-> NoInt,
              isActive |-> NoInt, limited |-> FALSE]

NoReward == [exists |-> FALSE, familyId |-> Null, pointCost |-> 1,
             quantityAvailable |-> NullInt, isActive |-> FALSE]

NoRedemption == [exists |-> FALSE, childId |-> Null, rewardId |-> 0,
                 pointsSpent |-> 0, status |-> "PENDING", reviewedById |-> Null,
                 fulfilledAt |-> FALSE]

NoHistory == [decremented |-> FALSE, refunds |-> 0]

NoResponse == [op |-> "none", code |-> "none"]

\* --------------------------------------------------------------- plumbing
\* res.status(..).json(..): the handler ends and the worker is free again.
Reply(r, code) ==
  /\ pc' = [pc EXCEPT ![r] = "idle"]
  /\ rq' = [rq EXCEPT ![r] = NoRequest]
  /\ last' = [op |-> rq[r].op, code |-> code]

\* A response sent by the first step of a handler, before any await completes.
ReplyAt(r, op, actor, id, code) ==
  /\ pc' = [pc EXCEPT ![r] = "idle"]
  /\ rq' = [rq EXCEPT ![r] = NoRequest]
  /\ last' = [op |-> op, code |-> code]

\* The handler is suspended at its next await with its locals in req.
Await(r, label, req) ==
  /\ pc' = [pc EXCEPT ![r] = label]
  /\ rq' = [rq EXCEPT ![r] = req]
  /\ last' = last

Request(op, actor, id) == [NoRequest EXCEPT !.op = op, !.actor = actor, !.id = id]

\* What a handler still reads of its locals once it is at activityLog.create.
AtLog(req) == [Request(req.op, req.actor, req.id) EXCEPT !.assignedToId = req.assignedToId]

\* FindChore without the familyId condition: the fault the family isolation is
\* checked against.
FindChoreAnyFamily(id, actor) == chores[id].exists

\* prisma.chore.findFirst({ where: { id, familyId: req.user.familyId } })
FindChore(id, actor) ==
  chores[id].exists /\ chores[id].familyId = FamilyOf(actor)

\* -------------------------------------------------- POST /api/chores
\* requireParent, the assignee lookup and prisma.chore.create.  Users never
\* leave their family, so the lookup and the insert are one step.
CreateChore(r, actor, assignee, pv) ==
  /\ pc[r] = "idle"
  /\ UNCHANGED <<ledgerVars, rewardVars, schemaHasPoints, histVars>>
  /\ IF UserRole(actor) # "PARENT"
       THEN ReplyAt(r, "create", actor, 0, "FORBIDDEN") /\ UNCHANGED <<chores, created>>
     ELSE IF assignee # Undefined /\ FamilyOf(assignee) # FamilyOf(actor)
       THEN ReplyAt(r, "create", actor, 0, "INVALID_ASSIGNEE") /\ UNCHANGED <<chores, created>>
     ELSE /\ created.chore < MaxChores
          /\ created' = [created EXCEPT !.chore = @ + 1]
          /\ chores' = [chores EXCEPT ![created.chore + 1] =
                          [NoChore EXCEPT !.exists = TRUE,
                                          !.familyId = FamilyOf(actor),
                                          !.assignedToId =
                                             IF assignee = Undefined THEN Null ELSE assignee,
                                          !.pointValue = pv,
                                          !.status = "PENDING"]]
          /\ Await(r, "log", Request("create", actor, created.chore + 1))

\* -------------------------------------------------- POST /api/chores/:id/claim
\* The codes with which the chore routes refuse a request for the state the
\* chore is in.
InvalidStateTransition == {"ALREADY_CLAIMED", "INVALID_STATUS"}

\* ClaimFind without the check that the chore is unassigned: the fault the
\* refusal of a second claim is checked against.
ClaimFindAssigned(r, actor, id) ==
  /\ pc[r] = "idle"
  /\ UNCHANGED <<choreVars, created, ledgerVars, rewardVars, schemaHasPoints, histVars>>
  /\ IF ~FindChore(id, actor)
       THEN ReplyAt(r, "claim", actor, id, "NOT_FOUND")
     ELSE IF chores[id].status # "PENDING"
       THEN ReplyAt(r, "claim", actor, id, "INVALID_STATUS")
     ELSE Await(r, "claim_update", Request("claim", actor, id))

ClaimFind(r, actor, id) ==
  /\ pc[r] = "idle"
  /\ UNCHANGED <<choreVars, created, ledgerVars, rewardVars, schemaHasPoints, histVars>>
  /\ IF ~FindChore(id, actor)
       THEN ReplyAt(r, "claim", actor, id, "NOT_FOUND")
     ELSE IF chores[id].assignedToId # Null
       THEN ReplyAt(r, "claim", actor, id, "ALREADY_CLAIMED")
     ELSE IF chores[id].status # "PENDING"
       THEN ReplyAt(r, "claim", actor, id, "INVALID_STATUS")
     ELSE Await(r, "claim_update", Request("claim", actor, id))

\* prisma.chore.update({ where: { id }, data: { assignedToId, claimedAt } })
ClaimUpdate(r) ==
  /\ pc[r] = "claim_update"
  /\ UNCHANGED <<created, ledgerVars, rewardVars, schemaHasPoints, histVars>>
  /\ IF ~chores[rq[r].id].exists
       THEN Reply(r, "SERVER_ERROR") /\ UNCHANGED chores
     ELSE /\ chores' = [chores EXCEPT ![rq[r].id].assignedToId = rq[r].actor,
                                      ![rq[r].id].claimedAt = TRUE]
          /\ Await(r, "log", AtLog(rq[r]))

\* -------------------------------------------------- PUT /api/chores/:id
\* UpdateFind without the VERIFIED half of its finalized check: the fault the
\* immutability of VERIFIED chores is checked against.
UpdateFindRejectedOnly(r, actor, id, assignee, pv) ==
  /\ pc[r] = "idle"
  /\ UNCHANGED <<choreVars, created, ledgerVars, rewardVars, schemaHasPoints, histVars>>
  /\ IF UserRole(actor) # "PARENT"
       THEN ReplyAt(r, "update", actor, id, "FORBIDDEN")
     ELSE IF ~FindChore(id, actor)
       THEN ReplyAt(r, "update", actor, id, "NOT_FOUND")
     ELSE IF chores[id].status = "REJECTED"
       THEN ReplyAt(r, "update", actor, id, "CHORE_FINALIZED")
     ELSE IF assignee \notin {Undefined, Null} /\ FamilyOf(assignee) # FamilyOf(actor)
       THEN ReplyAt(r, "update", actor, id, "INVALID_ASSIGNEE")
     ELSE Await(r, "update_update",
                [Request("update", actor, id) EXCEPT !.assignedToId = assignee,
                                                     !.pointValue = pv])

UpdateFind(r, actor, id, assignee, pv) ==
  /\ pc[r] = "idle"
  /\ UNCHANGED <<choreVars, created, ledgerVars, rewardVars, schemaHasPoints, histVars>>
  /\ IF UserRole(actor) # "PARENT"
       THEN ReplyAt(r, "update", actor, id, "FORBIDDEN")
     ELSE IF ~FindChore(id, actor)
       THEN ReplyAt(r, "update", actor, id, "NOT_FOUND")
     ELSE IF chores[id].status = "VERIFIED" \/ chores[id].status = "REJECTED"
       THEN ReplyAt(r, "update", actor, id, "CHORE_FINALIZED")
     ELSE IF assignee \notin {Undefined, Null} /\ FamilyOf(assignee) # FamilyOf(actor)
       THEN ReplyAt(r, "update", actor, id, "INVALID_ASSIGNEE")
     ELSE Await(r, "update_update",
                [Request("update", actor, id) EXCEPT !.assignedToId = assignee,
                                                     !.pointValue = pv])

\* prisma.chore.update({ where: { id }, data: updateData })
UpdateUpdate(r) ==
  /\ pc[r] = "update_update"
  /\ UNCHANGED <<created, ledgerVars, rewardVars, schemaHasPoints, histVars>>
  /\ IF ~chores[rq[r].id].exists
       THEN Reply(r, "SERVER_ERROR") /\ UNCHANGED chores
     ELSE /\ chores' = [chores EXCEPT ![rq[r].id] =
             [@ EXCEPT !.assignedToId =
                          IF rq[r].assignedToId = Undefined THEN @ ELSE rq[r].assignedToId,
                       !.claimedAt = IF rq[r].assignedToId = Null THEN FALSE ELSE @,
                       !.pointValue = IF rq[r].pointValue = NoInt THEN @ ELSE rq[r].pointValue]]
          /\ Reply(r, "OK")

\* -------------------------------------------------- POST /api/chores/:id/complete
\* CompleteFind without the assignee check: the fault the assignee-only rule is
\* checked against.
CompleteFindAnyUser(r, actor, id, photo, notes) ==
  /\ pc[r] = "idle"
  /\ UNCHANGED <<choreVars, created, ledgerVars, rewardVars, schemaHasPoints, histVars>>
  /\ IF ~FindChore(id, actor)
       THEN ReplyAt(r, "complete", actor, id, "NOT_FOUND")
     ELSE IF chores[id].status # "PENDING" /\ chores[id].status # "REJECTED"
       THEN ReplyAt(r, "complete", actor, id, "INVALID_STATUS")
     ELSE Await(r, "complete_update",
                [Request("complete", actor, id) EXCEPT
                    !.photoUrl = photo \/ chores[id].photoUrl,
                    !.notes = notes])

CompleteFind(r, actor, id, photo, notes) ==
  /\ pc[r] = "idle"
  /\ UNCHANGED <<choreVars, created, ledgerVars, rewardVars, schemaHasPoints, histVars>>
  /\ IF ~FindChore(id, actor)
       THEN ReplyAt(r, "complete", actor, id, "NOT_FOUND")
     ELSE IF chores[id].assignedToId # actor
       THEN ReplyAt(r, "complete", actor, id, "FORBIDDEN")
     ELSE IF chores[id].status # "PENDING" /\ chores[id].status # "REJECTED"
       THEN ReplyAt(r, "complete", actor, id, "INVALID_STATUS")
     ELSE Await(r, "complete_update",
                [Request("complete", actor, id) EXCEPT
                    !.photoUrl = photo \/ chores[id].photoUrl,
                    !.notes = notes])

\* CompleteUpdate crediting the chore's points at completion already: the fault
\* the list of pointsBalance writers is checked against.
CompleteUpdateAward(r) ==
  /\ pc[r] = "complete_update"
  /\ UNCHANGED <<created, points, rewardVars, schemaHasPoints, histVars>>
  /\ IF ~chores[rq[r].id].exists
       THEN Reply(r, "SERVER_ERROR") /\ UNCHANGED <<chores, pointsBalance>>
     ELSE /\ pointsBalance[rq[r].actor] + chores[rq[r].id].pointValue <= MaxBalance
          /\ chores' = [chores EXCEPT ![rq[r].id] =
             [@ EXCEPT !.status = "COMPLETED",
                       !.completedAt = TRUE,
                       !.photoUrl = rq[r].photoUrl,
                       !.completionNotes = IF rq[r].notes THEN TRUE ELSE @,
                       !.verifiedAt = FALSE,
                       !.verifiedById = Null,
                       !.completedById = rq[r].actor]]
          /\ pointsBalance' = [pointsBalance EXCEPT ![rq[r].actor] =
                                 @ + chores[rq[r].id].pointValue]
          /\ Await(r, "log", AtLog(rq[r]))

\* prisma.chore.update({ where: { id }, data: { status: COMPLETED, ... } })
CompleteUpdate(r) ==
  /\ pc[r] = "complete_update"
  /\ UNCHANGED <<created, ledgerVars, rewardVars, schemaHasPoints, histVars>>
  /\ IF ~chores[rq[r].id].exists
       THEN Reply(r, "SERVER_ERROR") /\ UNCHANGED chores
     ELSE /\ chores' = [chores EXCEPT ![rq[r].id] =
             [@ EXCEPT !.status = "COMPLETED",
                       !.completedAt = TRUE,
                       !.photoUrl = rq[r].photoUrl,
                       !.completionNotes = IF rq[r].notes THEN TRUE ELSE @,
                       !.verifiedAt = FALSE,
                       !.verifiedById = Null,
                       !.completedById = rq[r].actor]]
          /\ Await(r, "log", AtLog(rq[r]))

\* -------------------------------------------------- POST /api/chores/:id/add-photo
AddPhotoFind(r, actor, id) ==
  /\ pc[r] = "idle"
  /\ UNCHANGED <<choreVars, created, ledgerVars, rewardVars, schemaHasPoints, histVars>>
  /\ IF ~FindChore(id, actor)
       THEN ReplyAt(r, "add-photo", actor, id, "NOT_FOUND")
     ELSE IF chores[id].assignedToId # actor
       THEN ReplyAt(r, "add-photo", actor, id, "FORBIDDEN")
     ELSE IF chores[id].status # "COMPLETED" /\ chores[id].status # "REJECTED"
       THEN ReplyAt(r, "add-photo", actor, id, "INVALID_STATUS")
     ELSE Await(r, "photo_update", Request("add-photo", actor, id))

\* AddPhotoUpdate stamping completedAt along with the photo: the fault the
\* cleared completedAt of REJECTED chores is checked against.
AddPhotoUpdateStamp(r) ==
  /\ pc[r] = "photo_update"
  /\ UNCHANGED <<created, ledgerVars, rewardVars, schemaHasPoints, histVars>>
  /\ IF ~chores[rq[r].id].exists
       THEN Reply(r, "SERVER_ERROR") /\ UNCHANGED chores
     ELSE /\ chores' = [chores EXCEPT ![rq[r].id].photoUrl = TRUE,
                                      ![rq[r].id].completedAt = TRUE]
          /\ Reply(r, "OK")

\* prisma.chore.update({ where: { id }, data: { photoUrl } })
AddPhotoUpdate(r) ==
  /\ pc[r] = "photo_update"
  /\ UNCHANGED <<created, ledgerVars, rewardVars, schemaHasPoints, histVars>>
  /\ IF ~chores[rq[r].id].exists
       THEN Reply(r, "SERVER_ERROR") /\ UNCHANGED chores
     ELSE /\ chores' = [chores EXCEPT ![rq[r].id].photoUrl = TRUE]
          /\ Reply(r, "OK")

\* -------------------------------------------------- POST /api/chores/:id/verify
\* VerifyFind without the penalty pre-check: the fault the InsufficientPoints
\* refusal is checked against.
VerifyFindNoPreCheck(r, actor, id, approved, feedback, pointsPenalty) ==
  /\ pc[r] = "idle"
  /\ UNCHANGED <<choreVars, created, ledgerVars, rewardVars, schemaHasPoints, histVars>>
  /\ IF UserRole(actor) # "PARENT"
       THEN ReplyAt(r, "verify", actor, id, "FORBIDDEN")
     ELSE IF ~FindChore(id, actor)
       THEN ReplyAt(r, "verify", actor, id, "NOT_FOUND")
     ELSE IF chores[id].status # "COMPLETED"
       THEN ReplyAt(r, "verify", actor, id, "INVALID_STATUS")
     ELSE Await(r, "verify_transaction",
                [Request("verify", actor, id) EXCEPT
                    !.approved = approved,
                    !.feedback = feedback,
                    !.amount = IF approved THEN 0 ELSE pointsPenalty,
                    !.assignedToId = chores[id].assignedToId,
                    !.pointValue = chores[id].pointValue])

\* findFirst (include assignedTo), the status check and the penalty pre-check.
\* chore.assignedTo!.pointsBalance on an unassigned chore is a TypeError (500).
VerifyFind(r, actor, id, approved, feedback, pointsPenalty) ==
  /\ pc[r] = "idle"
  /\ UNCHANGED <<choreVars, created, ledgerVars, rewardVars, schemaHasPoints, histVars>>
  /\ IF UserRole(actor) # "PARENT"
       THEN ReplyAt(r, "verify", actor, id, "FORBIDDEN")
     ELSE IF ~FindChore(id, actor)
       THEN ReplyAt(r, "verify", actor, id, "NOT_FOUND")
     ELSE IF chores[id].status # "COMPLETED"
       THEN ReplyAt(r, "verify", actor, id, "INVALID_STATUS")
     ELSE IF ~approved /\ pointsPenalty > 0 /\ chores[id].assignedToId = Null
       THEN ReplyAt(r, "verify", actor, id, "SERVER_ERROR")
     ELSE IF ~approved /\ pointsPenalty > 0
             /\ pointsPenalty > pointsBalance[chores[id].assignedToId]
       THEN ReplyAt(r, "verify", actor, id, "INSUFFICIENT_POINTS")
     ELSE Await(r, "verify_transaction",
                [Request("verify", actor, id) EXCEPT
                    !.approved = approved,
                    !.feedback = feedback,
                    !.amount = IF approved THEN 0 ELSE pointsPenalty,
                    !.assignedToId = chores[id].assignedToId,
                    !.pointValue = chores[id].pointValue])

\* VerifyDelta crediting a flat point per approval whatever the chore is worth:
\* the fault the exact credit is checked against.
VerifyDeltaFlat(req) == IF req.approved THEN 1 ELSE 0 - req.amount

\* The points the transaction moves: +pointValue on approval, -pointsPenalty on
\* rejection, taken from the chore row read by VerifyFind.
VerifyDelta(req) == IF req.approved THEN req.pointValue ELSE 0 - req.amount

\* prisma.$transaction([chore.update, user.update?]).  A missing chore row or a
\* user.update with id null makes the whole batch fail and roll back.
VerifyTransaction(r) ==
  LET req == rq[r]
      delta == VerifyDelta(req)
  IN
  /\ pc[r] = "verify_transaction"
  /\ UNCHANGED <<created, points, rewardVars, schemaHasPoints, rhist>>
  /\ IF ~chores[req.id].exists \/ (delta # 0 /\ req.assignedToId = Null)
       THEN Reply(r, "SERVER_ERROR") /\ UNCHANGED <<chores, pointsBalance, credits>>
     ELSE /\ delta # 0 => pointsBalance[req.assignedToId] + delta <= MaxBalance
          /\ chores' = [chores EXCEPT ![req.id] =
               [@ EXCEPT !.status = IF req.approved THEN "VERIFIED" ELSE "REJECTED",
                         !.verifiedAt = TRUE,
                         !.verifiedById = req.actor,
                         !.verificationNotes = IF req.feedback THEN TRUE ELSE @,
                         !.completedAt = IF req.approved THEN @ ELSE FALSE,
                         !.completedById = Null]]
          /\ pointsBalance' =
               IF delta # 0
                 THEN [pointsBalance EXCEPT ![req.assignedToId] = @ + delta]
                 ELSE pointsBalance
          /\ credits' = IF req.approved /\ delta # 0
                          THEN [credits EXCEPT ![req.id] = IF @ < MaxCount THEN @ + 1 ELSE @]
                          ELSE credits
          /\ Await(r, "log", AtLog(req))

\* -------------------------------------------------- POST /api/chores/:id/reset
\* ResetFind refusing only VERIFIED chores: the fault the REJECTED-only rule of
\* reset is checked against.
ResetFindNotVerified(r, actor, id) ==
  /\ pc[r] = "idle"
  /\ UNCHANGED <<choreVars, created, ledgerVars, rewardVars, schemaHasPoints, histVars>>
  /\ IF UserRole(actor) # "PARENT"
       THEN ReplyAt(r, "reset", actor, id, "FORBIDDEN")
     ELSE IF ~FindChore(id, actor)
       THEN ReplyAt(r, "reset", actor, id, "NOT_FOUND")
     ELSE IF chores[id].status = "VERIFIED"
       THEN ReplyAt(r, "reset", actor, id, "INVALID_STATUS")
     ELSE Await(r, "reset_update", Request("reset", actor, id))

ResetFind(r, actor, id) ==
  /\ pc[r] = "idle"
  /\ UNCHANGED <<choreVars, created, ledgerVars, rewardVars, schemaHasPoints, histVars>>
  /\ IF UserRole(actor) # "PARENT"
       THEN ReplyAt(r, "reset", actor, id, "FORBIDDEN")
     ELSE IF ~FindChore(id, actor)
       THEN ReplyAt(r, "reset", actor, id, "NOT_FOUND")
     ELSE IF chores[id].status # "REJECTED"
       THEN ReplyAt(r, "reset", actor, id, "INVALID_STATUS")
     ELSE Await(r, "reset_update", Request("reset", actor, id))

\* prisma.chore.update({ where: { id }, data: { status: PENDING, ... null } })
ResetUpdate(r) ==
  /\ pc[r] = "reset_update"
  /\ UNCHANGED <<created, ledgerVars, rewardVars, schemaHasPoints, histVars>>
  /\ IF ~chores[rq[r].id].exists
       THEN Reply(r, "SERVER_ERROR") /\ UNCHANGED chores
     ELSE /\ chores' = [chores EXCEPT ![rq[r].id] =
             [@ EXCEPT !.status = "PENDING",
                       !.completedAt = FALSE,
                       !.photoUrl = FALSE,
                       !.completionNotes = FALSE,
                       !.verifiedAt = FALSE,
                       !.verifiedById = Null,
                       !.verificationNotes = FALSE]]
          /\ Reply(r, "OK")

\* -------------------------------------------------- DELETE /api/chores/:id
DeleteFind(r, actor, id) ==
  /\ pc[r] = "idle"
  /\ UNCHANGED <<choreVars, created, ledgerVars, rewardVars, schemaHasPoints, histVars>>
  /\ IF UserRole(actor) # "PARENT"
       THEN ReplyAt(r, "delete", actor, id, "FORBIDDEN")
     ELSE IF ~FindChore(id, actor)
       THEN ReplyAt(r, "delete", actor, id, "NOT_FOUND")
     ELSE IF chores[id].status = "VERIFIED"
       THEN ReplyAt(r, "delete", actor, id, "CANNOT_DELETE_VERIFIED")
     ELSE Await(r, "delete_delete", Request("delete", actor, id))

\* prisma.chore.delete({ where: { id } })
DeleteDelete(r) ==
  /\ pc[r] = "delete_delete"
  /\ UNCHANGED <<created, ledgerVars, rewardVars, schemaHasPoints, histVars>>
  /\ IF ~chores[rq[r].id].exists
       THEN Reply(r, "SERVER_ERROR") /\ UNCHANGED chores
     ELSE /\ chores' = [chores EXCEPT ![rq[r].id] = NoChore]
          /\ Await(r, "log", AtLog(rq[r]))

\* -------------------------------------------------- DELETE /api/chores/bulk
\* The route is registered after DELETE /:id, so Express hands the request to
\* the /:id handler with id = "bulk", which is the id of no chore.
DeleteBulk(r, actor) ==
  /\ pc[r] = "idle"
  /\ UNCHANGED <<choreVars, created, ledgerVars, rewardVars, schemaHasPoints, histVars>>
  /\ IF UserRole(actor) # "PARENT"
       THEN ReplyAt(r, "bulk-delete", actor, 0, "FORBIDDEN")
       ELSE ReplyAt(r, "bulk-delete", actor, 0, "NOT_FOUND")

\* -------------------------------------------------- prisma.activityLog.create
\* The last await of create, claim, complete, verify and delete; the success
\* response follows.  Verify's entry reads chore.assignedTo!.name, a TypeError
\* on an unassigned chore: the handler then answers 500 after its commit.
ActivityLog(r) ==
  /\ pc[r] = "log"
  /\ UNCHANGED <<choreVars, created, ledgerVars, rewardVars, schemaHasPoints, histVars>>
  /\ IF rq[r].op = "verify" /\ rq[r].assignedToId = Null
       THEN Reply(r, "SERVER_ERROR")
       ELSE Reply(r, "OK")

\* -------------------------------------------------- POST /api/kudos
\* requireParent, the child lookup and $transaction([kudos.create, user.update?]);
\* the lookup reads only the child's family and role, which never change.
SendKudos(r, actor, childId, pointsAwarded) ==
  /\ pc[r] = "idle"
  /\ UNCHANGED <<choreVars, created, points, rewardVars, schemaHasPoints, histVars>>
  /\ IF UserRole(actor) # "PARENT"
       THEN ReplyAt(r, "kudos", actor, 0, "FORBIDDEN") /\ UNCHANGED pointsBalance
     ELSE IF FamilyOf(childId) # FamilyOf(actor) \/ UserRole(childId) # "CHILD"
       THEN ReplyAt(r, "kudos", actor, 0, "INVALID_CHILD") /\ UNCHANGED pointsBalance
     ELSE /\ pointsBalance[childId] + pointsAwarded <= MaxBalance
          /\ pointsBalance' = IF pointsAwarded > 0
                                THEN [pointsBalance EXCEPT ![childId] = @ + pointsAwarded]
                                ELSE pointsBalance
          /\ Await(r, "log", Request("kudos", actor, 0))

\* -------------------------------------------------- POST /api/rewards
CreateReward(r, actor, pointCost, quantityAvailable, isActive) ==
  /\ pc[r] = "idle"
  /\ UNCHANGED <<choreVars, ledgerVars, redemptions, schemaHasPoints, histVars>>
  /\ IF UserRole(actor) # "PARENT"
       THEN ReplyAt(r, "create-reward", actor, 0, "FORBIDDEN")
            /\ UNCHANGED <<rewards, created>>
     ELSE /\ created.reward < MaxRewards
          /\ created' = [created EXCEPT !.reward = @ + 1]
          /\ rewards' = [rewards EXCEPT ![created.reward + 1] =
                           [exists |-> TRUE, familyId |-> FamilyOf(actor),
                            pointCost |-> pointCost,
                            quantityAvailable |-> quantityAvailable,
                            isActive |-> isActive]]
          /\ ReplyAt(r, "create-reward", actor, created.reward + 1, "OK")

\* prisma.reward.findFirst({ where: { id, familyId } })
FindReward(id, actor) ==
  rewards[id].exists /\ rewards[id].familyId = FamilyOf(actor)

\* -------------------------------------------------- PUT /api/rewards/:id
UpdateRewardFind(r, actor, id, pointCost, quantityAvailable, isActive) ==
  /\ pc[r] = "idle"
  /\ UNCHANGED <<choreVars, created, ledgerVars, rewardVars, schemaHasPoints, histVars>>
  /\ IF UserRole(actor) # "PARENT"
       THEN ReplyAt(r, "update-reward", actor, id, "FORBIDDEN")
     ELSE IF ~FindReward(id, actor)
       THEN ReplyAt(r, "update-reward", actor, id, "NOT_FOUND")
     ELSE Await(r, "reward_update",
                [Request("update-reward", actor, id) EXCEPT
                    !.amount = pointCost,
                    !.quantityAvailable = quantityAvailable,
                    !.isActive = isActive])

\* prisma.reward.update({ where: { id }, data: { the fields that are not undefined } })
UpdateRewardUpdate(r) ==
  /\ pc[r] = "reward_update"
  /\ UNCHANGED <<choreVars, created, ledgerVars, redemptions, schemaHasPoints, histVars>>
  /\ IF ~rewards[rq[r].id].exists
       THEN Reply(r, "SERVER_ERROR") /\ UNCHANGED rewards
     ELSE /\ rewards' = [rewards EXCEPT ![rq[r].id] =
             [@ EXCEPT !.pointCost = IF rq[r].amount = NoInt THEN @ ELSE rq[r].amount,
                       !.quantityAvailable =
                          IF rq[r].quantityAvailable = NoInt THEN @
                          ELSE rq[r].quantityAvailable,
                       !.isActive = IF rq[r].isActive = NoInt THEN @
                                    ELSE rq[r].isActive = 1]]
          /\ Reply(r, "OK")

\* reward._count.redemptions
CountRedemptions(id) ==
  Cardinality({d \in RedemptionIds : redemptions[d].exists /\ redemptions[d].rewardId = id})

\* -------------------------------------------------- DELETE /api/rewards/:id
DeleteRewardFind(r, actor, id) ==
  /\ pc[r] = "idle"
  /\ UNCHANGED <<choreVars, created, ledgerVars, rewardVars, schemaHasPoints, histVars>>
  /\ IF UserRole(actor) # "PARENT"
       THEN ReplyAt(r, "delete-reward", actor, id, "FORBIDDEN")
     ELSE IF ~FindReward(id, actor)
       THEN ReplyAt(r, "delete-reward", actor, id, "NOT_FOUND")
     ELSE Await(r, IF CountRedemptions(id) > 0 THEN "reward_deactivate" ELSE "reward_delete",
                Request("delete-reward", actor, id))

\* prisma.reward.update({ where: { id }, data: { isActive: false } })
DeleteRewardDeactivate(r) ==
  /\ pc[r] = "reward_deactivate"
  /\ UNCHANGED <<choreVars, created, ledgerVars, redemptions, schemaHasPoints, histVars>>
  /\ IF ~rewards[rq[r].id].exists
       THEN Reply(r, "SERVER_ERROR") /\ UNCHANGED rewards
     ELSE /\ rewards' = [rewards EXCEPT ![rq[r].id].isActive = FALSE]
          /\ Reply(r, "OK")

\* prisma.reward.delete({ where: { id } }); redemptions_reward_id_fkey is
\* ON DELETE CASCADE, so the reward's redemption rows go with it.
DeleteRewardDelete(r) ==
  /\ pc[r] = "reward_delete"
  /\ UNCHANGED <<choreVars, created, ledgerVars, schemaHasPoints, histVars>>
  /\ IF ~rewards[rq[r].id].exists
       THEN Reply(r, "SERVER_ERROR") /\ UNCHANGED rewardVars
     ELSE /\ rewards' = [rewards EXCEPT ![rq[r].id] = NoReward]
          /\ redemptions' = [d \in RedemptionIds |->
                               IF redemptions[d].exists /\ redemptions[d].rewardId = rq[r].id
                                 THEN NoRedemption ELSE redemptions[d]]
          /\ Reply(r, "OK")

\* SQL arithmetic on the nullable column: NULL + n is NULL.
AddNullable(q, n) == IF q = NullInt THEN NullInt ELSE q + n

\* -------------------------------------------------- POST /api/redemptions
\* requireChild, prisma.reward.findFirst (active, own family), the stock check.
RequestFindReward(r, actor, rewardId) ==
  /\ pc[r] = "idle"
  /\ UNCHANGED <<choreVars, created, ledgerVars, rewardVars, schemaHasPoints, histVars>>
  /\ IF UserRole(actor) # "CHILD"
       THEN ReplyAt(r, "request", actor, 0, "FORBIDDEN")
     ELSE IF ~(FindReward(rewardId, actor) /\ rewards[rewardId].isActive)
       THEN ReplyAt(r, "request", actor, 0, "NOT_FOUND")
     ELSE IF rewards[rewardId].quantityAvailable # NullInt
             /\ rewards[rewardId].quantityAvailable <= 0
       THEN ReplyAt(r, "request", actor, 0, "OUT_OF_STOCK")
     ELSE Await(r, "request_findUnique",
                [Request("request", actor, 0) EXCEPT
                    !.rewardId = rewardId,
                    !.amount = rewards[rewardId].pointCost,
                    !.limited = rewards[rewardId].quantityAvailable # NullInt])

\* prisma.user.findUnique({ where: { id }, select: { points: true } }) and the
\* balance check.  A client generated from a schema without User.points rejects
\* the query (PrismaClientValidationError), which the handler answers with 500.
RequestFindChild(r) ==
  /\ pc[r] = "request_findUnique"
  /\ UNCHANGED <<choreVars, created, ledgerVars, rewardVars, schemaHasPoints, histVars>>
  /\ IF ~schemaHasPoints
       THEN Reply(r, "SERVER_ERROR")
     ELSE IF points[rq[r].actor] < rq[r].amount
       THEN Reply(r, "INSUFFICIENT_POINTS")
     ELSE Await(r, "request_transaction", rq[r])

\* The three writes of the redemption request issued one after the other
\* outside a transaction: the fault the all-or-nothing rule is checked against.
\* The debit stays when the reward row is gone and the later writes fail.
RequestSequential(r) ==
  LET req == rq[r]
      new == created.redemption + 1
  IN
  /\ pc[r] = "request_transaction"
  /\ UNCHANGED <<choreVars, pointsBalance, schemaHasPoints, credits>>
  /\ points' = [points EXCEPT ![req.actor] = @ - req.amount]
  /\ IF ~rewards[req.rewardId].exists
       THEN /\ Reply(r, "SERVER_ERROR")
            /\ UNCHANGED <<rewardVars, created, rhist>>
     ELSE /\ created.redemption < MaxRedemptions
          /\ created' = [created EXCEPT !.redemption = new]
          /\ rewards' = IF req.limited
                          THEN [rewards EXCEPT ![req.rewardId].quantityAvailable =
                                   AddNullable(@, -1)]
                          ELSE rewards
          /\ redemptions' = [redemptions EXCEPT ![new] =
                               [NoRedemption EXCEPT !.exists = TRUE,
                                                    !.childId = req.actor,
                                                    !.rewardId = req.rewardId,
                                                    !.pointsSpent = req.amount,
                                                    !.status = "PENDING"]]
          /\ rhist' = [rhist EXCEPT ![new] =
                         [NoHistory EXCEPT
                            !.decremented = rewards'[req.rewardId].quantityAvailable
                                            # rewards[req.rewardId].quantityAvailable]]
          /\ pc' = [pc EXCEPT ![r] = "idle"]
          /\ rq' = [rq EXCEPT ![r] = NoRequest]
          /\ last' = [op |-> "request", code |-> "OK"]

\* prisma.$transaction: user.update (points decrement), reward.update (quantity
\* decrement when the reward read earlier was limited), redemption.create.
RequestTransaction(r) ==
  LET req == rq[r]
      new == created.redemption + 1
  IN
  /\ pc[r] = "request_transaction"
  /\ UNCHANGED <<choreVars, pointsBalance, schemaHasPoints, credits>>
  /\ IF ~rewards[req.rewardId].exists
       THEN /\ Reply(r, "SERVER_ERROR")
            /\ UNCHANGED <<points, rewardVars, created, rhist>>
     ELSE /\ created.redemption < MaxRedemptions
          /\ created' = [created EXCEPT !.redemption = new]
          /\ points' = [points EXCEPT ![req.actor] = @ - req.amount]
          /\ rewards' = IF req.limited
                          THEN [rewards EXCEPT ![req.rewardId].quantityAvailable =
                                   AddNullable(@, -1)]
                          ELSE rewards
          /\ redemptions' = [redemptions EXCEPT ![new] =
                               [NoRedemption EXCEPT !.exists = TRUE,
                                                    !.childId = req.actor,
                                                    !.rewardId = req.rewardId,
                                                    !.pointsSpent = req.amount,
                                                    !.status = "PENDING"]]
          /\ rhist' = [rhist EXCEPT ![new] =
                         [NoHistory EXCEPT
                            !.decremented = rewards'[req.rewardId].quantityAvailable
                                            # rewards[req.rewardId].quantityAvailable]]
          /\ pc' = [pc EXCEPT ![r] = "idle"]
          /\ rq' = [rq EXCEPT ![r] = NoRequest]
          /\ last' = [op |-> "request", code |-> "OK"]

\* -------------------------------------------------- PUT /api/redemptions/:id/review
\* ReviewFind without requireParent: the fault the role enforcement is checked
\* against.
ReviewFindAnyRole(r, actor, id, status) ==
  /\ pc[r] = "idle"
  /\ UNCHANGED <<choreVars, created, ledgerVars, rewardVars, schemaHasPoints, histVars>>
  /\ IF ~(/\ redemptions[id].exists
          /\ FamilyOf(redemptions[id].childId) = FamilyOf(actor)
          /\ redemptions[id].status = "PENDING")
       THEN ReplyAt(r, "review", actor, id, "NOT_FOUND")
     ELSE Await(r, IF status = "REJECTED" THEN "review_transaction" ELSE "review_update",
                [Request("review", actor, id) EXCEPT
                    !.approved = (status = "APPROVED"),
                    !.childId = redemptions[id].childId,
                    !.rewardId = redemptions[id].rewardId,
                    !.amount = redemptions[id].pointsSpent,
                    !.limited =
                       rewards[redemptions[id].rewardId].quantityAvailable # NullInt])

\* requireParent and prisma.redemption.findFirst({ id, child's family, PENDING },
\* include reward).
ReviewFind(r, actor, id, status) ==
  /\ pc[r] = "idle"
  /\ UNCHANGED <<choreVars, created, ledgerVars, rewardVars, schemaHasPoints, histVars>>
  /\ IF UserRole(actor) # "PARENT"
       THEN ReplyAt(r, "review", actor, id, "FORBIDDEN")
     ELSE IF ~(/\ redemptions[id].exists
               /\ FamilyOf(redemptions[id].childId) = FamilyOf(actor)
               /\ redemptions[id].status = "PENDING")
       THEN ReplyAt(r, "review", actor, id, "NOT_FOUND")
     ELSE Await(r, IF status = "REJECTED" THEN "review_transaction" ELSE "review_update",
                [Request("review", actor, id) EXCEPT
                    !.approved = (status = "APPROVED"),
                    !.childId = redemptions[id].childId,
                    !.rewardId = redemptions[id].rewardId,
                    !.amount = redemptions[id].pointsSpent,
                    !.limited =
                       rewards[redemptions[id].rewardId].quantityAvailable # NullInt])

\* The points a rejection gives back: the redemption's pointsSpent as read by
\* ReviewFind.
Refund(req) == req.amount

\* prisma.$transaction: user.update (points increment), reward.update (quantity
\* increment when the reward read by ReviewFind was limited), redemption.update.
ReviewTransaction(r) ==
  LET req == rq[r]
  IN
  /\ pc[r] = "review_transaction"
  /\ UNCHANGED <<choreVars, created, pointsBalance, schemaHasPoints, credits>>
  /\ IF ~schemaHasPoints \/ ~redemptions[req.id].exists
       THEN Reply(r, "SERVER_ERROR") /\ UNCHANGED <<points, rewardVars, rhist>>
     ELSE /\ points[req.childId] + Refund(req) <= MaxBalance
          /\ points' = [points EXCEPT ![req.childId] = @ + Refund(req)]
          /\ rewards' = IF req.limited
                          THEN [rewards EXCEPT ![req.rewardId].quantityAvailable =
                                   AddNullable(@, 1)]
                          ELSE rewards
          /\ redemptions' = [redemptions EXCEPT ![req.id].status = "REJECTED",
                                                ![req.id].reviewedById = req.actor]
          /\ rhist' = [rhist EXCEPT ![req.id].refunds = @ + 1]
          /\ Reply(r, "OK")

\* ReviewUpdate debiting the points a second time at approval: the fault the
\* frame of approval is checked against.
ReviewUpdateDebit(r) ==
  /\ pc[r] = "review_update"
  /\ UNCHANGED <<choreVars, created, pointsBalance, rewards, schemaHasPoints, histVars>>
  /\ IF ~redemptions[rq[r].id].exists
       THEN Reply(r, "SERVER_ERROR") /\ UNCHANGED <<redemptions, points>>
     ELSE /\ redemptions' = [redemptions EXCEPT ![rq[r].id].status = "APPROVED",
                                                ![rq[r].id].reviewedById = rq[r].actor]
          /\ points' = [points EXCEPT ![rq[r].childId] = @ - rq[r].amount]
          /\ Reply(r, "OK")

\* prisma.redemption.update({ where: { id }, data: { status: "APPROVED", ... } })
ReviewUpdate(r) ==
  /\ pc[r] = "review_update"
  /\ UNCHANGED <<choreVars, created, ledgerVars, rewards, schemaHasPoints, histVars>>
  /\ IF ~redemptions[rq[r].id].exists
       THEN Reply(r, "SERVER_ERROR") /\ UNCHANGED redemptions
     ELSE /\ redemptions' = [redemptions EXCEPT ![rq[r].id].status = "APPROVED",
                                                ![rq[r].id].reviewedById = rq[r].actor]
          /\ Reply(r, "OK")

\* -------------------------------------------------- PUT /api/redemptions/:id/fulfill
FulfillFind(r, actor, id) ==
  /\ pc[r] = "idle"
  /\ UNCHANGED <<choreVars, created, ledgerVars, rewardVars, schemaHasPoints, histVars>>
  /\ IF UserRole(actor) # "PARENT"
       THEN ReplyAt(r, "fulfill", actor, id, "FORBIDDEN")
     ELSE IF ~(/\ redemptions[id].exists
               /\ FamilyOf(redemptions[id].childId) = FamilyOf(actor)
               /\ redemptions[id].status = "APPROVED")
       THEN ReplyAt(r, "fulfill", actor, id, "NOT_FOUND")
     ELSE Await(r, "fulfill_update", Request("fulfill", actor, id))

\* prisma.redemption.update({ where: { id }, data: { status: "FULFILLED", fulfilledAt } })
FulfillUpdate(r) ==
  /\ pc[r] = "fulfill_update"
  /\ UNCHANGED <<choreVars, created, ledgerVars, rewards, schemaHasPoints, histVars>>
  /\ IF ~redemptions[rq[r].id].exists
       THEN Reply(r, "SERVER_ERROR") /\ UNCHANGED redemptions
     ELSE /\ redemptions' = [redemptions EXCEPT ![rq[r].id].status = "FULFILLED",
                                                ![rq[r].id].fulfilledAt = TRUE]
          /\ Reply(r, "OK")

\* ------------------------------------------------------------ request bodies
PointValues == 0..MaxPoints
PointCosts == 1..(MaxPoints + 1)
Quantities == {NullInt} \cup (0..MaxQuantity)

\* ---------------------------------------------------------------- behaviour
\* An empty database: the users exist with points_balance at its default 0.
\* User.points is declared by the Prisma schema, which is not among the
\* sources: whether the client knows the field, and what the column holds at
\* start, are left open.
Init ==
  /\ chores = [c \in ChoreIds |-> NoChore]
  /\ pointsBalance = [u \in Everyone |-> 0]
  /\ schemaHasPoints \in BOOLEAN
  /\ points \in [Everyone -> 0..MaxPoints]
  /\ \A u \in Everyone : (~schemaHasPoints \/ u \notin Children) => points[u] = 0
  /\ rewards = [w \in RewardIds |-> NoReward]
  /\ redemptions = [d \in RedemptionIds |-> NoRedemption]
  /\ created = [chore |-> 0, reward |-> 0, redemption |-> 0]
  /\ pc = [r \in Procs |-> "idle"]
  /\ rq = [r \in Procs |-> NoRequest]
  /\ last = NoResponse
  /\ credits = [c \in ChoreIds |-> 0]
  /\ rhist = [d \in RedemptionIds |-> NoHistory]

\* A chore request arrives at worker r; F is the set of values of the optional
\* text fields of the bodies (photoUrl, notes, feedback: present or not).
ChoreRequest(r, F) ==
  \/ \E a \in Users, u \in Users \cup {Undefined}, v \in PointValues :
       CreateChore(r, a, u, v)
  \/ \E a \in Users, c \in ChoreIds : ClaimFind(r, a, c)
  \/ \E a \in Users, c \in ChoreIds, u \in Users \cup {Undefined, Null},
        v \in PointValues \cup {NoInt} : UpdateFind(r, a, c, u, v)
  \/ \E a \in Users, c \in ChoreIds, ph \in F, n \in F :
       CompleteFind(r, a, c, ph, n)
  \/ \E a \in Users, c \in ChoreIds : AddPhotoFind(r, a, c)
  \/ \E a \in Users, c \in ChoreIds, ok \in BOOLEAN, f \in F, v \in PointValues :
       VerifyFind(r, a, c, ok, f, v)
  \/ \E a \in Users, c \in ChoreIds : ResetFind(r, a, c)
  \/ \E a \in Users, c \in ChoreIds : DeleteFind(r, a, c)
  \/ \E a \in Users : DeleteBulk(r, a)

\* A suspended chore handler of worker r resumes.
ChoreResume(r) ==
  \/ ClaimUpdate(r)
  \/ UpdateUpdate(r)
  \/ CompleteUpdate(r)
  \/ AddPhotoUpdate(r)
  \/ VerifyTransaction(r)
  \/ ResetUpdate(r)
  \/ DeleteDelete(r)
  \/ ActivityLog(r)

KudosRequest(r) ==
  \E a \in Users, u \in Users, v \in PointValues : SendKudos(r, a, u, v)

RewardResume(r) ==
  \/ UpdateRewardUpdate(r)
  \/ DeleteRewardDeactivate(r)
  \/ DeleteRewardDelete(r)
  \/ RequestFindChild(r)
  \/ RequestTransaction(r)
  \/ ReviewTransaction(r)
  \/ ReviewUpdate(r)
  \/ FulfillUpdate(r)

\* The chore and kudos routes with one request handled at a time.
InitChores == Init /\ ~schemaHasPoints
ChoresNext == ChoreRequest(1, {FALSE}) \/ ChoreResume(1) \/ KudosRequest(1)
SpecChores == InitChores /\ [][ChoresNext]_vars

\* Interleaved requests of the parent and the children around verification:
\* create, complete, verify and kudos.
VerifyNext ==
  \E r \in Procs :
    \/ \E u \in Children, v \in PointValues : CreateChore(r, "p1", u, v)
    \/ \E a \in Children, c \in ChoreIds : CompleteFind(r, a, c, FALSE, FALSE)
    \/ \E c \in ChoreIds, ok \in BOOLEAN, v \in PointValues :
         VerifyFind(r, "p1", c, ok, FALSE, v)
    \/ \E u \in Children, v \in PointValues : SendKudos(r, "p1", u, v)
    \/ CompleteUpdate(r)
    \/ VerifyTransaction(r)
    \/ ActivityLog(r)
SpecVerify == InitChores /\ [][VerifyNext]_vars

\* Interleaved claim requests of the children on chores the parent creates.
ClaimNext ==
  \E r \in Procs :
    \/ \E u \in Children \cup {Undefined}, v \in PointValues : CreateChore(r, "p1", u, v)
    \/ \E a \in Children, c \in ChoreIds : ClaimFind(r, a, c)
    \/ ClaimUpdate(r)
    \/ ActivityLog(r)
SpecClaim == InitChores /\ [][ClaimNext]_vars

\* Interleaved redemption requests and reviews on the rewards the parent creates.
ReviewNext ==
  \E r \in Procs :
    \/ \E v \in PointCosts, q \in Quantities : CreateReward(r, "p1", v, q, TRUE)
    \/ \E a \in Children, w \in RewardIds : RequestFindReward(r, a, w)
    \/ \E d \in RedemptionIds, st \in {"APPROVED", "REJECTED"} : ReviewFind(r, "p1", d, st)
    \/ \E d \in RedemptionIds : FulfillFind(r, "p1", d)
    \/ RequestFindChild(r)
    \/ RequestTransaction(r)
    \/ ReviewTransaction(r)
    \/ ReviewUpdate(r)
    \/ FulfillUpdate(r)
SpecReview == Init /\ [][ReviewNext]_vars

\* Every route of the four routers with one request handled at a time: the
\* parent p1 and the child c1 act, on chores worth one point and rewards that
\* cost one point until the parent raises the cost.
InitSystem == Init /\ points["c2"] = 0
SystemNext ==
  \/ \E a \in {"p1", "c1"}, u \in {"c1", Undefined} : CreateChore(1, a, u, 1)
  \/ \E c \in ChoreIds : ClaimFind(1, "c1", c)
  \/ \E c \in ChoreIds : UpdateFind(1, "p1", c, Null, NoInt)
  \/ \E c \in ChoreIds : CompleteFind(1, "c1", c, FALSE, FALSE)
  \/ \E c \in ChoreIds : AddPhotoFind(1, "c1", c)
  \/ \E c \in ChoreIds, ok \in BOOLEAN, v \in PointValues :
       VerifyFind(1, "p1", c, ok, FALSE, v)
  \/ \E c \in ChoreIds : ResetFind(1, "p1", c)
  \/ \E c \in ChoreIds : DeleteFind(1, "p1", c)
  \/ DeleteBulk(1, "p1")
  \/ ChoreResume(1)
  \/ SendKudos(1, "p1", "c1", 1)
  \/ \E q \in {NullInt, 1} : CreateReward(1, "p1", 1, q, TRUE)
  \/ \E w \in RewardIds, v \in {NoInt, 2}, q \in {NoInt, 1} :
       UpdateRewardFind(1, "p1", w, v, q, NoInt)
  \/ \E w \in RewardIds : DeleteRewardFind(1, "p1", w)
  \/ \E w \in RewardIds : RequestFindReward(1, "c1", w)
  \/ \E d \in RedemptionIds, st \in {"APPROVED", "REJECTED"} : ReviewFind(1, "p1", d, st)
  \/ \E d \in RedemptionIds : FulfillFind(1, "p1", d)
  \/ RewardResume(1)
SpecSystem == InitSystem /\ [][SystemNext]_vars

\* Interleaved verify (approve), update and delete requests of the parent on
\* chores the children complete; a child completes while nothing else is in
\* flight, so that only the parent's requests race.
RaceNext ==
  \E r \in Procs :
    \/ \E u \in Children, v \in PointValues : CreateChore(r, "p1", u, v)
    \/ /\ \A s \in Procs : pc[s] = "idle"
       /\ \E a \in Children, c \in ChoreIds : CompleteFind(r, a, c, FALSE, FALSE)
    \/ \E c \in ChoreIds : VerifyFind(r, "p1", c, TRUE, FALSE, 0)
    \/ \E c \in ChoreIds, u \in Children \cup {Undefined, Null}, v \in PointValues \cup {NoInt} :
         UpdateFind(r, "p1", c, u, v)
    \/ \E c \in ChoreIds : DeleteFind(r, "p1", c)
    \/ CompleteUpdate(r)
    \/ VerifyTransaction(r)
    \/ UpdateUpdate(r)
    \/ DeleteDelete(r)
    \/ ActivityLog(r)
SpecRace == InitChores /\ [][RaceNext]_vars

\* The role-guarded routes requested by the parent p1 and by the child c1 alike,
\* one request at a time.
RolesNext ==
  \/ \E a \in {"p1", "c1"} : CreateChore(1, a, "c1", 1)
  \/ \E c \in ChoreIds : CompleteFind(1, "c1", c, FALSE, FALSE)
  \/ \E a \in {"p1", "c1"}, c \in ChoreIds : UpdateFind(1, a, c, Undefined, 0)
  \/ \E a \in {"p1", "c1"}, c \in ChoreIds, ok \in BOOLEAN : VerifyFind(1, a, c, ok, FALSE, 0)
  \/ \E a \in {"p1", "c1"}, c \in ChoreIds : ResetFind(1, a, c)
  \/ \E a \in {"p1", "c1"}, c \in ChoreIds : DeleteFind(1, a, c)
  \/ \E a \in {"p1", "c1"} : DeleteBulk(1, a)
  \/ CreateReward(1, "p1", 1, NullInt, TRUE)
  \/ \E a \in {"p1", "c1"}, w \in RewardIds : RequestFindReward(1, a, w)
  \/ \E a \in {"p1", "c1"}, d \in RedemptionIds, st \in {"APPROVED", "REJECTED"} :
       ReviewFind(1, a, d, st)
  \/ \E a \in {"p1", "c1"}, d \in RedemptionIds : FulfillFind(1, a, d)
  \/ UpdateUpdate(1)
  \/ CompleteUpdate(1)
  \/ VerifyTransaction(1)
  \/ ResetUpdate(1)
  \/ DeleteDelete(1)
  \/ ActivityLog(1)
  \/ RequestFindChild(1)
  \/ RequestTransaction(1)
  \/ ReviewTransaction(1)
  \/ ReviewUpdate(1)
  \/ FulfillUpdate(1)
SpecRoles == InitSystem /\ [][RolesNext]_vars

\* Interleaved redemption requests of the children and delete requests of the
\* parent on rewards that cost one point.
StockNext ==
  \E r \in Procs :
    \/ \E q \in Quantities : CreateReward(r, "p1", 1, q, TRUE)
    \/ \E a \in Children, w \in RewardIds : RequestFindReward(r, a, w)
    \/ \E w \in RewardIds : DeleteRewardFind(r, "p1", w)
    \/ RequestFindChild(r)
    \/ RequestTransaction(r)
    \/ DeleteRewardDeactivate(r)
    \/ DeleteRewardDelete(r)
SpecStock == Init /\ [][StockNext]_vars

\* The transactions of both ledgers racing with the deletes that make them
\* fail: c1 completes chores worth a point, the parent approves, rejects and
\* deletes them, c1 requests rewards and the parent deletes them.
LedgerNext ==
  \E r \in Procs :
    \/ CreateChore(r, "p1", "c1", 1)
    \/ /\ \A s \in Procs : pc[s] = "idle"
       /\ \E c \in ChoreIds : CompleteFind(r, "c1", c, FALSE, FALSE)
    \/ \E c \in ChoreIds, ok \in BOOLEAN : VerifyFind(r, "p1", c, ok, FALSE, 1)
    \/ \E c \in ChoreIds : DeleteFind(r, "p1", c)
    \/ \E q \in Quantities : CreateReward(r, "p1", 1, q, TRUE)
    \/ \E w \in RewardIds : RequestFindReward(r, "c1", w)
    \/ \E w \in RewardIds : DeleteRewardFind(r, "p1", w)
    \/ CompleteUpdate(r)
    \/ VerifyTransaction(r)
    \/ DeleteDelete(r)
    \/ ActivityLog(r)
    \/ RequestFindChild(r)
    \/ RequestTransaction(r)
    \/ DeleteRewardDeactivate(r)
    \/ DeleteRewardDelete(r)
SpecLedger == InitSystem /\ [][LedgerNext]_vars

\* Two families with one request handled at a time: the parents p1 and p2 and
\* the children c1 and c3 send requests at their own family's chores, rewards,
\* redemptions and users and at the other family's.
IsolationNext ==
  \/ \E a \in {"p1", "p2"}, u \in {"c1", "c3", Undefined} : CreateChore(1, a, u, 1)
  \/ \E a \in {"c1", "c3"}, c \in ChoreIds : ClaimFind(1, a, c)
  \/ \E a \in {"p1", "p2"}, c \in ChoreIds, u \in {"c1", "c3"} :
       UpdateFind(1, a, c, u, NoInt)
  \/ \E a \in {"c1", "c3"}, c \in ChoreIds : CompleteFind(1, a, c, FALSE, FALSE)
  \/ \E a \in {"p1", "p2"}, c \in ChoreIds : VerifyFind(1, a, c, TRUE, FALSE, 0)
  \/ \E a \in {"p1", "p2"}, c \in ChoreIds : DeleteFind(1, a, c)
  \/ \E a \in {"p1", "p2"}, u \in {"c1", "c3"} : SendKudos(1, a, u, 1)
  \/ \E a \in {"p1", "p2"} : CreateReward(1, a, 1, NullInt, TRUE)
  \/ \E a \in {"p1", "p2"}, w \in RewardIds : DeleteRewardFind(1, a, w)
  \/ \E a \in {"c1", "c3"}, w \in RewardIds : RequestFindReward(1, a, w)
  \/ \E a \in {"p1", "p2"}, d \in RedemptionIds : ReviewFind(1, a, d, "REJECTED")
  \/ ClaimUpdate(1)
  \/ UpdateUpdate(1)
  \/ CompleteUpdate(1)
  \/ VerifyTransaction(1)
  \/ DeleteDelete(1)
  \/ ActivityLog(1)
  \/ DeleteRewardDeactivate(1)
  \/ DeleteRewardDelete(1)
  \/ RequestFindChild(1)
  \/ RequestTransaction(1)
  \/ ReviewTransaction(1)
InitIsolation == Init /\ schemaHasPoints /\ points["c1"] = 1 /\ points["c2"] = 0
SpecIsolation == InitIsolation /\ [][IsolationNext]_vars

\* ------------------------------------------------------------------- claims
\* C1: however verify(approved = true) requests on one chore interleave, the
\* assignee's pointsBalance is incremented by the chore's pointValue at most
\* once per chore.
C1_NoDoubleAward == \A c \in ChoreIds : credits[c] <= 1

\* C2: when claim requests on one unassigned PENDING chore interleave, a claim
\* that is about to be answered with success is the only such claim on the
\* chore, and the chore is assigned to the user it is answering.
C2_ClaimExclusive ==
  \A r \in Procs :
    (pc[r] = "log" /\ rq[r].op = "claim") =>
      /\ chores[rq[r].id].assignedToId = rq[r].actor
      /\ \A s \in Procs \ {r} :
           ~(pc[s] = "log" /\ rq[s].op = "claim" /\ rq[s].id = rq[r].id)

\* C3: however debiting requests on one child's balance interleave, no user's
\* pointsBalance is negative in any reachable state.
C3_BalanceNeverNegative == \A u \in Users : pointsBalance[u] >= 0

\* The step is the commit of worker r's verify transaction.
VerifyCommitted(r) == pc[r] = "verify_transaction" /\ pc'[r] = "log"

\* The step is the commit of worker r's redemption request: a row is inserted.
RequestCommitted(r) ==
  pc[r] = "request_transaction" /\ created'.redemption # created.redemption

\* The step is the commit of worker r's rejection of a redemption.
RejectCommitted(r) == pc[r] = "review_transaction" /\ rhist' # rhist

C7_VerifiedImmutable ==
  [][\A c \in ChoreIds :
       (chores[c].exists /\ chores[c].status = "VERIFIED") =>
         /\ chores'[c] = chores[c]
         /\ \A r \in Procs :
              (pc[r] = "idle" /\ pc'[r] # "idle") =>
                (rq'[r].op \in {"create", "kudos"} \/ rq'[r].id # c)
         /\ (last' # last /\ \A r \in Procs : pc[r] = "idle" /\ pc'[r] = "idle") =>
              last'.code # "OK"
         /\ pointsBalance' # pointsBalance =>
              \E r \in Procs :
                \/ pc[r] = "idle" /\ rq'[r].op = "kudos"
                \/ pc[r] = "verify_transaction" /\ rq[r].id # c]_vars

\* A VERIFIED chore, credited once, whose repeated verification has just been
\* refused.
C7_ReverifyRefused ==
  \E c \in ChoreIds :
    /\ chores[c].exists /\ chores[c].status = "VERIFIED"
    /\ credits[c] = 1
    /\ \A r \in Procs : pc[r] = "idle"
    /\ last = [op |-> "verify", code |-> "INVALID_STATUS"]

\* C8: a redemption request of a child whose pointsBalance covers the reward's
\* pointCost is not turned down for points, and a request that succeeds takes
\* pointCost off the child's pointsBalance, takes one unit off a limited
\* quantityAvailable and inserts a PENDING redemption with pointsSpent = pointCost.
C8_RequestDebitsBalance ==
  [][\A r \in Procs :
       /\ (/\ pc[r] = "request_findUnique" /\ pc'[r] # pc[r]
           /\ pointsBalance[rq[r].actor] >= rewards[rq[r].rewardId].pointCost) =>
            pc'[r] = "request_transaction"
       /\ RequestCommitted(r) =>
            LET w == rq[r].rewardId
                d == created'.redemption
            IN /\ pointsBalance'[rq[r].actor] =
                    pointsBalance[rq[r].actor] - rewards[w].pointCost
               /\ rewards'[w].quantityAvailable =
                    AddNullable(rewards[w].quantityAvailable, -1)
               /\ redemptions'[d].status = "PENDING"
               /\ redemptions'[d].pointsSpent = rewards[w].pointCost]_vars

C11_VerifiedSurvivesRaces ==
  [][\A c \in ChoreIds :
       /\ \A r \in Procs :
            (VerifyCommitted(r) /\ rq[r].id = c /\ credits'[c] # credits[c]) =>
              /\ chores'[c].status = "VERIFIED"
              /\ chores'[c].pointValue = rq[r].pointValue
              /\ chores'[c].assignedToId = rq[r].assignedToId
       /\ (chores[c].exists /\ chores[c].status = "VERIFIED" /\ credits[c] > 0) =>
            /\ chores'[c].exists
            /\ chores'[c].status = "VERIFIED"
            /\ chores'[c].pointValue = chores[c].pointValue
            /\ chores'[c].assignedToId = chores[c].assignedToId]_vars

\* C12: a parent's update of a chore whose status is not VERIFIED gets past the
\* handler's checks, and the update that follows succeeds and changes neither
\* the chore's status nor any balance.
C12_UpdateUnlessVerified ==
  [][\A r \in Procs, c \in ChoreIds :
       /\ \A a \in Parents, u \in Users \cup {Undefined, Null}, v \in PointValues \cup {NoInt} :
            (/\ UpdateFind(r, a, c, u, v)
             /\ chores[c].exists /\ chores[c].status # "VERIFIED") =>
              pc'[r] = "update_update"
       /\ (UpdateUpdate(r) /\ rq[r].id = c) =>
            /\ last'.code = "OK"
            /\ chores'[c].status = chores[c].status
            /\ pointsBalance' = pointsBalance]_vars

\* C13: no claim, complete or add-photo request of a PARENT gets past its
\* handler's checks: a handler suspended at the write of one of these routes
\* acts for a CHILD.
C13_ChildOnlyActions ==
  \A r \in Procs :
    pc[r] \in {"claim_update", "complete_update", "photo_update"} =>
      UserRole(rq[r].actor) = "CHILD"

\* The step is a parent-only request issued by actor a and taken up by worker r.
ParentOnlyRequest(r, a) ==
  \/ \E u \in Users \cup {Undefined}, v \in PointValues : CreateChore(r, a, u, v)
  \/ \E c \in ChoreIds, u \in Users \cup {Undefined, Null}, v \in PointValues \cup {NoInt} :
       UpdateFind(r, a, c, u, v)
  \/ \E c \in ChoreIds, ok \in BOOLEAN, f \in BOOLEAN, v \in PointValues :
       VerifyFind(r, a, c, ok, f, v)
  \/ \E c \in ChoreIds : ResetFind(r, a, c)
  \/ \E c \in ChoreIds : DeleteFind(r, a, c)
  \/ DeleteBulk(r, a)
  \/ \E d \in RedemptionIds, st \in {"APPROVED", "REJECTED"} : ReviewFind(r, a, d, st)
  \/ \E d \in RedemptionIds : FulfillFind(r, a, d)

\* The step answers worker r's request with Forbidden and changes no table.
Refused(r) ==
  /\ pc'[r] = "idle"
  /\ last'.code = "FORBIDDEN"
  /\ UNCHANGED <<chores, pointsBalance, points, rewards, redemptions, created>>

\* C14: a create, update, verify, reset, delete or bulk-delete chore request and
\* a review or fulfill redemption request of a CHILD, and a redemption request
\* of a PARENT, is answered with Forbidden and changes no table.
C14_ParentOnlyActions ==
  [][\A r \in Procs :
       /\ \A a \in Children : ParentOnlyRequest(r, a) => Refused(r)
       /\ \A a \in Parents, w \in RewardIds : RequestFindReward(r, a, w) => Refused(r)]_vars

\* A child's review of a PENDING redemption has just been refused.
C14_ChildReviewRefused ==
  /\ last = [op |-> "review", code |-> "FORBIDDEN"]
  /\ \E d \in RedemptionIds : redemptions[d].exists /\ redemptions[d].status = "PENDING"

\* C15: the rejection of a COMPLETED, assigned chore with a pointsPenalty above
\* the assignee's balance is answered with InsufficientPoints and changes no
\* chore and no balance; with a penalty within the balance it reaches its
\* transaction, which sets REJECTED and takes exactly pointsPenalty off the
\* assignee's balance.
C15_RejectPenalty ==
  [][\A r \in Procs, c \in ChoreIds :
       /\ \A a \in Parents, f \in BOOLEAN, v \in PointValues :
            (/\ VerifyFind(r, a, c, FALSE, f, v)
             /\ chores[c].exists /\ chores[c].status = "COMPLETED"
             /\ chores[c].assignedToId # Null) =>
              IF v > pointsBalance[chores[c].assignedToId]
                THEN /\ pc'[r] = "idle"
                     /\ last'.code = "INSUFFICIENT_POINTS"
                     /\ chores' = chores
                     /\ pointsBalance' = pointsBalance
                ELSE pc'[r] = "verify_transaction"
       /\ (/\ VerifyCommitted(r) /\ rq[r].id = c
           /\ ~rq[r].approved /\ rq[r].assignedToId # Null) =>
            /\ chores'[c].status = "REJECTED"
            /\ pointsBalance' =
                 [pointsBalance EXCEPT ![rq[r].assignedToId] = @ - rq[r].amount]]_vars

\* A rejection has just been refused for points: the chore is still COMPLETED
\* with its completedAt, and the assignee's balance is short of one point.
C15_PenaltyRefused ==
  /\ last = [op |-> "verify", code |-> "INSUFFICIENT_POINTS"]
  /\ \E c \in ChoreIds :
       /\ chores[c].exists /\ chores[c].status = "COMPLETED" /\ chores[c].completedAt
       /\ chores[c].assignedToId # Null
       /\ pointsBalance[chores[c].assignedToId] = 0

C17_RequestRefusals ==
  [][\A r \in Procs :
       /\ \A a \in Children, w \in RewardIds :
            RequestFindReward(r, a, w) =>
              /\ ~(rewards[w].exists /\ rewards[w].isActive) =>
                   /\ last'.code = "NOT_FOUND" /\ pc'[r] = "idle"
                   /\ UNCHANGED <<pointsBalance, points, rewards, redemptions>>
              /\ (rewards[w].exists /\ rewards[w].isActive
                  /\ rewards[w].quantityAvailable = 0) =>
                   /\ last'.code = "OUT_OF_STOCK" /\ pc'[r] = "idle"
                   /\ UNCHANGED <<pointsBalance, points, rewards, redemptions>>
       /\ (RequestFindChild(r) /\ pointsBalance[rq[r].actor] < rq[r].amount) =>
            /\ last'.code = "INSUFFICIENT_POINTS" /\ pc'[r] = "idle"
            /\ UNCHANGED <<pointsBalance, points, rewards, redemptions>>]_vars

\* C18: the approval of a COMPLETED chore that has an assignee reaches its
\* transaction, which sets the chore VERIFIED with verifiedAt and verifiedById
\* set and adds exactly the chore's pointValue to the assignee's balance
\* (nothing when pointValue is 0); no other field of the chore but the
\* verification notes, no other chore and no other user's balance changes.
C18_ApproveCredits ==
  [][\A r \in Procs, c \in ChoreIds :
       /\ \A a \in Parents, f \in BOOLEAN, v \in PointValues :
            (/\ VerifyFind(r, a, c, TRUE, f, v)
             /\ chores[c].exists /\ chores[c].status = "COMPLETED"
             /\ chores[c].assignedToId # Null) =>
              pc'[r] = "verify_transaction"
       /\ (/\ VerifyTransaction(r) /\ rq[r].id = c /\ rq[r].approved
           /\ chores[c].assignedToId # Null) =>
            /\ chores' = [chores EXCEPT ![c] =
                 [@ EXCEPT !.status = "VERIFIED",
                           !.verifiedAt = TRUE,
                           !.verifiedById = rq[r].actor,
                           !.verificationNotes = chores'[c].verificationNotes,
                           !.completedById = Null]]
            /\ pointsBalance' = [pointsBalance EXCEPT ![chores[c].assignedToId] =
                                   @ + chores[c].pointValue]
            /\ points' = points]_vars

\* An approval has just committed on a chore worth a point: the chore is
\* VERIFIED, verifiedById is the parent, the assignee holds the point and the
\* other child holds none.
C18_ApprovedAndCredited ==
  \E r \in Procs, c \in ChoreIds :
    /\ pc[r] = "log" /\ rq[r].op = "verify" /\ rq[r].id = c
    /\ chores[c].status = "VERIFIED" /\ chores[c].verifiedAt
    /\ chores[c].verifiedById = "p1"
    /\ chores[c].pointValue = 1 /\ chores[c].assignedToId = "c1"
    /\ pointsBalance["c1"] = 1 /\ pointsBalance["c2"] = 0

\* C19: a complete request on an existing chore is answered FORBIDDEN when the
\* actor is not the chore's assignee (an unassigned chore included) and
\* INVALID_STATUS when the assignee asks on a COMPLETED or VERIFIED chore, the
\* chore unchanged in both cases; otherwise it reaches its update, which runs
\* only for the assignee of a PENDING or REJECTED chore and sets status
\* COMPLETED and completedAt and clears verifiedAt and verifiedById.
C19_CompleteByAssignee ==
  [][\A r \in Procs, c \in ChoreIds :
       /\ \A a \in Users, ph \in BOOLEAN, n \in BOOLEAN :
            (/\ pc[r] = "idle" /\ chores[c].exists
             /\ (pc'[r] = "complete_update" \/ last'.op = "complete")
             /\ CompleteFind(r, a, c, ph, n)) =>
              IF chores[c].assignedToId # a
                THEN /\ pc'[r] = "idle" /\ last'.code = "FORBIDDEN"
                     /\ chores' = chores
              ELSE IF chores[c].status \in {"COMPLETED", "VERIFIED"}
                THEN /\ pc'[r] = "idle" /\ last'.code = "INVALID_STATUS"
                     /\ chores' = chores
              ELSE pc'[r] = "complete_update"
       /\ (CompleteUpdate(r) /\ rq[r].id = c) =>
            /\ chores[c].assignedToId = rq[r].actor
            /\ chores[c].status \in {"PENDING", "REJECTED"}
            /\ chores'[c].status = "COMPLETED"
            /\ chores'[c].completedAt
            /\ ~chores'[c].verifiedAt
            /\ chores'[c].verifiedById = Null
            /\ chores'[c].assignedToId = chores[c].assignedToId]_vars

\* The assignee's complete request has just updated the chore: it is COMPLETED
\* with completedAt, assigned to the actor, and verifiedAt and verifiedById are
\* clear.
C19_CompletedByAssignee ==
  \E r \in Procs, c \in ChoreIds :
    /\ pc[r] = "log" /\ rq[r].op = "complete" /\ rq[r].id = c
    /\ chores[c].assignedToId = rq[r].actor
    /\ chores[c].status = "COMPLETED" /\ chores[c].completedAt
    /\ ~chores[c].verifiedAt /\ chores[c].verifiedById = Null

\* C20: with one request handled at a time, a claim on an existing chore that
\* is assigned already or is not PENDING is answered with an
\* invalid-state-transition code and leaves the chore as it is; otherwise it
\* reaches its update, which runs only on an unassigned PENDING chore, assigns
\* it to the actor, sets claimedAt and leaves the status PENDING.
C20_ClaimUnassignedPending ==
  [][\A r \in Procs, c \in ChoreIds :
       /\ \A a \in Users :
            (ClaimFind(r, a, c) /\ chores[c].exists) =>
              IF chores[c].assignedToId # Null \/ chores[c].status # "PENDING"
                THEN /\ pc'[r] = "idle"
                     /\ last'.code \in InvalidStateTransition
                     /\ chores' = chores
                ELSE pc'[r] = "claim_update"
       /\ (ClaimUpdate(r) /\ rq[r].id = c) =>
            /\ chores[c].status = "PENDING" /\ chores[c].assignedToId = Null
            /\ chores' = [chores EXCEPT ![c].assignedToId = rq[r].actor,
                                        ![c].claimedAt = TRUE]]_vars

\* A claim has just assigned a chore: it is PENDING, assigned to the actor and
\* carries claimedAt.
C20_Claimed ==
  \E r \in Procs, c \in ChoreIds :
    /\ pc[r] = "log" /\ rq[r].op = "claim" /\ rq[r].id = c
    /\ chores[c].status = "PENDING"
    /\ chores[c].assignedToId = rq[r].actor
    /\ chores[c].claimedAt

\* C21: a parent's reset of an existing chore that is not REJECTED fails and
\* changes no chore and no balance; on a REJECTED chore it reaches its update,
\* which runs only on a REJECTED chore, sets status PENDING, clears
\* completedAt, photoUrl, completionNotes, verifiedAt, verifiedById and
\* verificationNotes, keeps every other field (the assignee among them) and
\* leaves every balance as it is.
C21_ResetFromRejected ==
  [][\A r \in Procs, c \in ChoreIds :
       /\ \A a \in Parents :
            (ResetFind(r, a, c) /\ chores[c].exists) =>
              IF chores[c].status # "REJECTED"
                THEN /\ pc'[r] = "idle" /\ last'.code # "OK"
                     /\ chores' = chores
                     /\ pointsBalance' = pointsBalance
                ELSE pc'[r] = "reset_update"
       /\ (ResetUpdate(r) /\ rq[r].id = c) =>
            /\ chores[c].status = "REJECTED"
            /\ last'.code = "OK"
            /\ chores' = [chores EXCEPT ![c] =
                 [@ EXCEPT !.status = "PENDING",
                           !.completedAt = FALSE,
                           !.photoUrl = FALSE,
                           !.completionNotes = FALSE,
                           !.verifiedAt = FALSE,
                           !.verifiedById = Null,
                           !.verificationNotes = FALSE]]
            /\ pointsBalance' = pointsBalance
            /\ points' = points]_vars

\* A reset has just been answered with success: the chore is PENDING again,
\* still assigned, and its verification fields are clear.
C21_ResetDone ==
  /\ last = [op |-> "reset", code |-> "OK"]
  /\ \E c \in ChoreIds :
       /\ chores[c].exists /\ chores[c].status = "PENDING"
       /\ chores[c].assignedToId # Null
       /\ ~chores[c].completedAt /\ ~chores[c].verifiedAt
       /\ chores[c].verifiedById = Null

\* C22: every step that persists the ledger effect of a chore verification
\* (credit or penalty), of a redemption request or of a redemption rejection is
\* also the step that inserts the activity-log entry of that transition, so
\* that no state has the effect without the entry.
C22_AuditInTransaction ==
  [][\A r \in Procs :
       (\/ VerifyCommitted(r) /\ pointsBalance' # pointsBalance
        \/ RequestCommitted(r)
        \/ RejectCommitted(r)) => ActivityLog(r)]_vars

C24_ApproveFulfillFrame ==
  [][\A r \in Procs :
       (ReviewUpdate(r) \/ FulfillUpdate(r)) =>
         /\ pointsBalance' = pointsBalance
         /\ points' = points
         /\ rewards' = rewards
         /\ \A d \in RedemptionIds :
              redemptions'[d] =
                IF d = rq[r].id /\ redemptions[d].exists
                  THEN [redemptions[d] EXCEPT
                          !.status = redemptions'[d].status,
                          !.reviewedById = redemptions'[d].reviewedById,
                          !.fulfilledAt = redemptions'[d].fulfilledAt]
                  ELSE redemptions[d]]_vars

\* A fulfilment has just been answered with success: the redemption is
\* FULFILLED with fulfilledAt, reviewed by the parent, and still carries the
\* point spent on it.
C24_Fulfilled ==
  /\ last = [op |-> "fulfill", code |-> "OK"]
  /\ \E d \in RedemptionIds :
       /\ redemptions[d].exists /\ redemptions[d].status = "FULFILLED"
       /\ redemptions[d].fulfilledAt
       /\ redemptions[d].reviewedById = "p1"
       /\ redemptions[d].pointsSpent >= 1

\* C25: in every state reached by complete, verify, add-photo, update and reset
\* requests (and the other chore requests), a chore whose status is REJECTED
\* has completedAt cleared.
C25_RejectedNotCompleted ==
  \A c \in ChoreIds :
    (chores[c].exists /\ chores[c].status = "REJECTED") => ~chores[c].completedAt

\* A photo has just been added to a REJECTED chore: the chore is still
\* REJECTED, carries the photo and the verification stamp, and has no
\* completedAt.
C25_PhotoOnRejected ==
  /\ last = [op |-> "add-photo", code |-> "OK"]
  /\ \E c \in ChoreIds :
       /\ chores[c].exists /\ chores[c].status = "REJECTED"
       /\ chores[c].photoUrl /\ chores[c].verifiedAt
       /\ ~chores[c].completedAt

\* The step leaves alone everything that belongs to another family than the
\* user a's: its chores, rewards and redemptions and its users' balances.
OtherFamiliesUntouched(a) ==
  /\ \A c \in ChoreIds :
       (chores[c].exists /\ chores[c].familyId # FamilyOf(a)) => chores'[c] = chores[c]
  /\ \A w \in RewardIds :
       (rewards[w].exists /\ rewards[w].familyId # FamilyOf(a)) => rewards'[w] = rewards[w]
  /\ \A d \in RedemptionIds :
       (redemptions[d].exists /\ FamilyOf(redemptions[d].childId) # FamilyOf(a)) =>
         redemptions'[d] = redemptions[d]
  /\ \A u \in Everyone :
       FamilyOf(u) # FamilyOf(a) =>
         pointsBalance'[u] = pointsBalance[u] /\ points'[u] = points[u]

\* The chore, reward or redemption that the request req is aimed at is of the
\* family of the user who sent it.
TargetInFamily(req) ==
  CASE req.op \in {"claim", "update", "complete", "add-photo", "verify", "reset", "delete"} ->
         chores[req.id].familyId = FamilyOf(req.actor)
    [] req.op \in {"update-reward", "delete-reward"} ->
         rewards[req.id].familyId = FamilyOf(req.actor)
    [] req.op = "request" -> rewards[req.rewardId].familyId = FamilyOf(req.actor)
    [] req.op \in {"review", "fulfill"} ->
         FamilyOf(redemptions[req.id].childId) = FamilyOf(req.actor)
    [] OTHER -> TRUE

C29_CompletedHasAssignee ==
  \A c \in ChoreIds :
    (chores[c].exists /\ chores[c].status \in {"COMPLETED", "VERIFIED"}) =>
      chores[c].assignedToId # Null

\* C30: the user a verification credits is the user whose complete put the
\* chore into the COMPLETED status it is verified from.
C30_CreditGoesToCompleter ==
  [][\A r \in Procs :
       (VerifyCommitted(r) /\ rq[r].approved /\ pointsBalance' # pointsBalance) =>
         /\ pointsBalance'[chores[rq[r].id].completedById] =
              pointsBalance[chores[rq[r].id].completedById] + rq[r].pointValue
         /\ \A u \in Everyone \ {chores[rq[r].id].completedById} :
              pointsBalance'[u] = pointsBalance[u]]_vars

====
